---- MODULE Spec2Model ----
(***************************************************************************)
(* keplersLaw(M, e, iterations = 6): Newton-Raphson iteration for Kepler's *)
(* equation E - e sin(E) = M, started at E = M.                            *)
(*                                                                         *)
(* JavaScript numbers are IEEE-754 doubles.  They are modelled here as     *)
(* binary fixed-point numbers with 26 fractional bits (one unit = 2^-26,   *)
(* about 1.5e-8) together with the three non-finite values NaN, +Infinity  *)
(* and -Infinity, which follow the IEEE rules of each operation.  A finite *)
(* number is a pair (i, r): the value i + r / 2^26 with 0 <= r < 2^26, so  *)
(* that the integer part has the whole integer range and no product        *)
(* exceeds it.  Signed zeros are not distinguished.                        *)
(***************************************************************************)
EXTENDS Integers, Sequences, FiniteSets, TLC

(***************************************************************************)
(* Number representation.                                                  *)
(***************************************************************************)
\* One: the number of units in 1.0.
S == 2^26

\* Half: the square root of S, used to split a factor in two halves.
H == 2^13

Fin(i, r) == [k |-> "fin", i |-> i, r |-> r]

NaN == [k |-> "nan", i |-> 0, r |-> 0]

PosInf == [k |-> "inf", i |-> 1, r |-> 0]

NegInf == [k |-> "inf", i |-> -1, r |-> 0]

IsFinite(x) == x.k = "fin"

IsNaN(x) == x.k = "nan"

\* A number of units (|u| < 2^31) as a number.
FromUnits(u) == Fin(u \div S, u % S)

\* The units of a number whose magnitude is below 31.
ToUnits(x) == x.i * S + x.r

Zero == Fin(0, 0)

One == Fin(1, 0)

IsZero(x) == IsFinite(x) /\ x.i = 0 /\ x.r = 0

\* -1, 0 or 1
Sign(x) ==
  IF IsNaN(x) THEN 0
  ELSE IF ~IsFinite(x) THEN x.i
  ELSE IF x.i < 0 THEN -1
  ELSE IF x.i = 0 /\ x.r = 0 THEN 0 ELSE 1

Neg(x) ==
  IF IsNaN(x) THEN NaN
  ELSE IF ~IsFinite(x) THEN [x EXCEPT !.i = -x.i]
  ELSE IF x.r = 0 THEN Fin(-x.i, 0) ELSE Fin(-x.i - 1, S - x.r)

Abs(x) == IF Sign(x) < 0 THEN Neg(x) ELSE x

\* x < y on finite numbers
Less(x, y) == x.i < y.i \/ (x.i = y.i /\ x.r < y.r)

AbsInt(n) == IF n < 0 THEN -n ELSE n

(***************************************************************************)
(* The arithmetic of line 4: -, *, /.                                      *)
(***************************************************************************)
FinAdd(x, y) ==
  LET r == x.r + y.r
  IN  Fin(x.i + y.i + r \div S, r % S)

\* x - y
Sub(x, y) ==
  IF IsNaN(x) \/ IsNaN(y) THEN NaN
  ELSE IF ~IsFinite(x) /\ ~IsFinite(y) THEN (IF x.i = y.i THEN NaN ELSE x)
  ELSE IF ~IsFinite(x) THEN x
  ELSE IF ~IsFinite(y) THEN Neg(y)
  ELSE FinAdd(x, Neg(y))

\* floor(a * b / S) for 0 <= a, b < 2^28, by halves so no product overflows
MulUnits(a, b) ==
  LET a1 == a \div H
      a0 == a % H
      b1 == b \div H
      b0 == b % H
  IN  a1 * b1 + (a1 * b0 + a0 * b1 + (a0 * b0) \div H) \div H

\* a * b in units, for |a|, |b| < 2^28 units; rounds toward zero
MulSigned(a, b) ==
  LET p == MulUnits(AbsInt(a), AbsInt(b))
  IN  IF (a < 0) = (b < 0) THEN p ELSE -p

\* x * y; both factors of this program are below 4 in magnitude
Mul(x, y) ==
  IF IsNaN(x) \/ IsNaN(y) THEN NaN
  ELSE IF ~IsFinite(x) \/ ~IsFinite(y)
    THEN (IF Sign(x) = 0 \/ Sign(y) = 0 THEN NaN
          ELSE IF Sign(x) = Sign(y) THEN PosInf ELSE NegInf)
  ELSE FromUnits(MulSigned(ToUnits(x), ToUnits(y)))

\* <<q, r>> with a * b = q * c + r and 0 <= r < c, for a, b >= 0 and
\* 0 < c < 2^29, by the binary expansion of b
RECURSIVE MulDivRem(_, _, _)
MulDivRem(a, b, c) ==
  IF b = 0 THEN <<0, 0>>
  ELSE LET h == MulDivRem(a, b \div 2, c)
           q == 2 * h[1] + (IF b % 2 = 1 THEN a \div c ELSE 0)
           r == 2 * h[2] + (IF b % 2 = 1 THEN a % c ELSE 0)
       IN  <<q + r \div c, r % c>>

\* (i + r / S) / (d / S) for i, r >= 0 and 0 < d < 2^29 units; rounds toward zero
DivUnits(i, r, d) ==
  LET w == MulDivRem(i, S, d)
      t == w[2] + r
      f == MulDivRem(t % d, S, d)
  IN  Fin(w[1] + t \div d, f[1])

\* x / y; the divisor of this program is below 4 in magnitude
Div(x, y) ==
  IF IsNaN(x) \/ IsNaN(y) THEN NaN
  ELSE IF ~IsFinite(x) /\ ~IsFinite(y) THEN NaN
  ELSE IF ~IsFinite(x) THEN (IF Sign(y) < 0 THEN Neg(x) ELSE x)
  ELSE IF ~IsFinite(y) THEN Zero
  ELSE IF IsZero(y) THEN (IF IsZero(x) THEN NaN
                          ELSE IF Sign(x) > 0 THEN PosInf ELSE NegInf)
  ELSE LET ax == Abs(x)
           q == DivUnits(ax.i, ax.r, AbsInt(ToUnits(y)))
       IN  IF Sign(x) = Sign(y) THEN q ELSE Neg(q)

(***************************************************************************)
(* Math.sin and Math.cos of line 4.  The argument is reduced modulo 2 pi   *)
(* and by the symmetries of the sine to [0, pi / 2], where the Taylor      *)
(* series to x^15 is exact to a few units.  The results lie in [-1, 1],    *)
(* as those of Math.sin and Math.cos do, and sin(0) = 0.                   *)
(***************************************************************************)
\* pi / 2, pi and 2 pi in units
HalfPi == 105414357

Pi == 210828714

TwoPi == 421657428

\* the units of |x| modulo 2 pi, for finite x
Reduce(x) ==
  LET ax == Abs(x)
  IN  (MulDivRem(ax.i, S, TwoPi)[2] + ax.r) % TwoPi

\* 1 - y/c1 (1 - y/c2 (1 - ...)) in units
RECURSIVE Horner(_, _)
Horner(y, cs) ==
  IF cs = <<>> THEN S
  ELSE S - MulUnits(y, Horner(y, Tail(cs))) \div Head(cs)

\* sin t for 0 <= t <= pi / 2 units
SinTaylor(t) ==
  LET v == MulUnits(t, Horner(MulUnits(t, t), <<6, 20, 42, 72, 110, 156, 210>>))
  IN  IF v > S THEN S ELSE v

\* sin t for 0 <= t < 2 pi units
SinUnits(t) ==
  IF t <= HalfPi THEN SinTaylor(t)
  ELSE IF t <= Pi THEN SinTaylor(Pi - t)
  ELSE IF t <= Pi + HalfPi THEN -SinTaylor(t - Pi)
  ELSE -SinTaylor(TwoPi - t)

\* Math.sin(x)
Sin(x) ==
  IF ~IsFinite(x) THEN NaN
  ELSE LET v == SinUnits(Reduce(x))
       IN  FromUnits(IF Sign(x) < 0 THEN -v ELSE v)

\* Math.cos(x) = sin(|x| + pi / 2)
Cos(x) ==
  IF ~IsFinite(x) THEN NaN
  ELSE FromUnits(SinUnits((Reduce(x) + HalfPi) % TwoPi))

(***************************************************************************)
(* Line 4: one update of the iterate.                                      *)
(***************************************************************************)
\* a slip in line 4: + M for - M
ResidualPlusM(E, M, e) == Sub(Sub(E, Mul(e, Sin(E))), Neg(M))

\* a slip in line 4: Math.cos for Math.sin in the numerator
ResidualCos(E, M, e) == Sub(Sub(E, Mul(e, Cos(E))), M)

\* E - e * Math.sin(E) - M
Residual(E, M, e) == Sub(Sub(E, Mul(e, Sin(E))), M)

\* a slip in line 4: the factor e dropped from the denominator
DenominatorNoE(E, e) == Sub(One, Cos(E))

\* 1 - e * Math.cos(E)
Denominator(E, e) == Sub(One, Mul(e, Cos(E)))

\* E - (E - e * Math.sin(E) - M) / (1 - e * Math.cos(E))
NewtonStep(E, M, e) == Sub(E, Div(Residual(E, M, e), Denominator(E, e)))

\* E after n updates from E0 (the whole loop, for reference values)
RECURSIVE Iterate(_, _, _, _)
Iterate(E0, M, e, n) ==
  IF n <= 0 THEN E0 ELSE Iterate(NewtonStep(E0, M, e), M, e, n - 1)

\* the value keplersLaw(M, e, n) returns: n updates from E = M
keplersLaw(M, e, n) == Iterate(M, M, e, n)

(***************************************************************************)
(* The calls.  Each call c has the argument list it was called with and    *)
(* its own parameters and locals; the function has no other state.         *)
(***************************************************************************)
VARIABLES
  args,        \* args[c]: the argument list of call c: <<M, e>>, <<M, e, n>> or <<M, e, n, tolerance>>
  pc,          \* pc[c]: "call" (not yet entered), "loop" (line 3) or "done" (returned)
  iterations,  \* iterations[c]: the parameter iterations, after its default
  i,           \* i[c]: the loop counter
  E,           \* E[c]: the iterate
  ret,         \* ret[c]: the value returned
  steps,       \* steps[c]: how many times line 4 has run (history)
  prev         \* prev[c]: the iterate before the last run of line 4 (history)

vars == <<args, pc, iterations, i, E, ret, steps, prev>>

Calls == DOMAIN pc

\* the parameters M and e of call c
ArgM(c) == args[c][1]

ArgE(c) == args[c][2]

\* line 1: iterations = 6
DefaultIterations == 6

\* the parameter iterations of an argument list
ParamIterations(a) == IF Len(a) >= 3 THEN a[3] ELSE DefaultIterations

\* a slip in line 3: <= for <
LoopCondLeq(c) == i[c] <= iterations[c]

\* line 3 with an early exit once a pass moved the iterate by less than 0.001
LoopCondEarlyExit(c) ==
  /\ i[c] < iterations[c]
  /\ ~(steps[c] >= 1 /\ IsFinite(E[c]) /\ IsFinite(prev[c])
         /\ Less(Abs(Sub(E[c], prev[c])), FromUnits(S \div 1000)))

\* line 3: i < iterations
LoopCond(c) == i[c] < iterations[c]

\* lines 1-3: the parameters are bound, let E = M, let i = 0
Enter(c) ==
  /\ pc[c] = "call"
  /\ iterations' = [iterations EXCEPT ![c] = ParamIterations(args[c])]
  /\ E' = [E EXCEPT ![c] = ArgM(c)]
  /\ i' = [i EXCEPT ![c] = 0]
  /\ pc' = [pc EXCEPT ![c] = "loop"]
  /\ UNCHANGED <<args, ret, steps, prev>>

\* lines 3-4 with E declared outside the function: one iterate for all calls
LoopStepShared(c) ==
  /\ pc[c] = "loop"
  /\ LoopCond(c)
  /\ E' = [d \in Calls |-> NewtonStep(E[c], ArgM(c), ArgE(c))]
  /\ i' = [i EXCEPT ![c] = i[c] + 1]
  /\ steps' = [steps EXCEPT ![c] = steps[c] + 1]
  /\ prev' = [prev EXCEPT ![c] = E[c]]
  /\ UNCHANGED <<args, pc, iterations, ret>>

\* lines 3-4: one pass of the loop body, then i++
LoopStep(c) ==
  /\ pc[c] = "loop"
  /\ LoopCond(c)
  /\ E' = [E EXCEPT ![c] = NewtonStep(E[c], ArgM(c), ArgE(c))]
  /\ i' = [i EXCEPT ![c] = i[c] + 1]
  /\ steps' = [steps EXCEPT ![c] = steps[c] + 1]
  /\ prev' = [prev EXCEPT ![c] = E[c]]
  /\ UNCHANGED <<args, pc, iterations, ret>>

\* line 6: return E, once the loop condition fails
Return(c) ==
  /\ pc[c] = "loop"
  /\ ~LoopCond(c)
  /\ ret' = [ret EXCEPT ![c] = E[c]]
  /\ pc' = [pc EXCEPT ![c] = "done"]
  /\ UNCHANGED <<args, iterations, i, E, steps, prev>>

Next ==
  \/ \E c \in Calls : Enter(c)
  \/ \E c \in Calls : LoopStep(c)
  \/ \E c \in Calls : Return(c)

(***************************************************************************)
(* Inputs.                                                                 *)
(***************************************************************************)
\* the largest iteration count passed explicitly
MaxIter == 6

\* mean anomalies k * 4 pi / MGrid, k = -MGrid .. MGrid
MGrid == 6

FourPi == 2 * TwoPi

Tenth(k) == FromUnits((k * S) \div 10)

\* 0.99
E99 == FromUnits(S - S \div 100)

MValues == {FromUnits(k * (FourPi \div MGrid)) : k \in -MGrid..MGrid} \cup {NaN, PosInf, NegInf}

EValues == {Tenth(-1), Zero, Tenth(5), Tenth(9), E99, One, NaN, PosInf}

IterValues == -1..MaxIter

\* 0.001
Tol == FromUnits(S \div 1000)

ArgLists ==
  {<<M, e>> : M \in MValues, e \in EValues}
    \cup {<<M, e, n>> : M \in MValues, e \in EValues, n \in IterValues}
    \cup {<<M, e, n, Tol>> : M \in MValues, e \in EValues, n \in IterValues}

\* the state of the calls cs before any of them has run
Start(cs) ==
  /\ pc = [c \in cs |-> "call"]
  /\ iterations = [c \in cs |-> 0]
  /\ i = [c \in cs |-> 0]
  /\ E = [c \in cs |-> Zero]
  /\ ret = [c \in cs |-> Zero]
  /\ steps = [c \in cs |-> 0]
  /\ prev = [c \in cs |-> Zero]

\* one call, with any of the argument lists
Init == args \in [{1} -> ArgLists] /\ Start({1})

Spec == Init /\ [][Next]_vars

(***************************************************************************)
(* Inputs of the root property: a dense grid of mean anomalies in          *)
(* [-4 pi, 4 pi], eccentricities 0, 0.1, ..., 0.9 and 0.99, and the        *)
(* default or an explicit iteration count of at least 6, no tolerance.     *)
(***************************************************************************)
\* mean anomalies k * 4 pi / RootGrid, k = -RootGrid .. RootGrid
RootGrid == 96

RootMValues == {FromUnits(k * (FourPi \div RootGrid)) : k \in -RootGrid..RootGrid}

RootEValues == {Tenth(k) : k \in 0..9} \cup {E99}

RootArgLists ==
  {<<M, e>> : M \in RootMValues, e \in RootEValues}
    \cup {<<M, e, n>> : M \in RootMValues, e \in RootEValues, n \in DefaultIterations..MaxIter}

InitRoot == args \in [{1} -> RootArgLists] /\ Start({1})

SpecRoot == InitRoot /\ [][Next]_vars

(***************************************************************************)
(* Two calls with small argument lists, interleaved in every order.        *)
(***************************************************************************)
\* the largest iteration count the two calls pass explicitly
PairIter == 2

PairArgLists ==
  {<<M, e>> : M \in {One, Fin(2, S \div 2)}, e \in {Tenth(5), Tenth(9)}}
    \cup {<<M, e, n>> : M \in {One, Fin(2, S \div 2)}, e \in {Tenth(5), Tenth(9)}, n \in 1..PairIter}

InitPair == args \in [{1, 2} -> PairArgLists] /\ Start({1, 2})

SpecPair == InitPair /\ [][Next]_vars

(***************************************************************************)
(* Properties.                                                             *)
(***************************************************************************)
\* 0 <= e < 1
ValidE(e) == IsFinite(e) /\ e.i = 0

ValidArgs(c) == IsFinite(ArgM(c)) /\ ValidE(ArgE(c))

Entered(c) == pc[c] \in {"loop", "done"}

\* |x| < y on finite numbers
AbsLess(x, y) == IsFinite(x) /\ IsFinite(y) /\ Less(Abs(x), y)

\* C1: a call whose e is a finite number outside [0, 1) is rejected before
\* iterating: line 4 never runs for it and it returns no value.
C1_DomainErrorBeforeIterating ==
  \A c \in Calls :
    (IsFinite(ArgE(c)) /\ ~ValidE(ArgE(c))) => (steps[c] = 0 /\ pc[c] # "done")

\* C2: a call whose M or e is NaN or an infinity is rejected before iterating:
\* line 4 never runs for it and it returns no value (so none that is not finite).
C2_NonFiniteRejected ==
  \A c \in Calls :
    (~IsFinite(ArgM(c)) \/ ~IsFinite(ArgE(c))) => (steps[c] = 0 /\ pc[c] # "done")

\* C3: without a tolerance, for finite M, 0 <= e < 1 and an iteration count
\* n >= 1 (6 when omitted), the iterate starts at M, after k passes it is the
\* k-th Newton update of M, the loop makes exactly n passes whatever M and e
\* are, and the value returned is the iterate of the last pass.
C3_FixedIterations ==
  \A c \in Calls :
    LET n == IF Len(args[c]) = 2 THEN 6 ELSE args[c][3]
    IN  (Len(args[c]) <= 3 /\ ValidArgs(c) /\ n >= 1) =>
          /\ pc[c] = "loop" =>
               /\ steps[c] = i[c]
               /\ i[c] <= n
               /\ E[c] = keplersLaw(ArgM(c), ArgE(c), i[c])
          /\ pc[c] = "done" =>
               /\ steps[c] = n
               /\ ret[c] = keplersLaw(ArgM(c), ArgE(c), n)

\* a call with the iteration count omitted has returned after 6 passes that
\* moved the iterate
C3_Witness ==
  \E c \in Calls :
    /\ Len(args[c]) = 2
    /\ ValidArgs(c)
    /\ pc[c] = "done"
    /\ steps[c] = 6
    /\ ret[c] # ArgM(c)

\* C4: when e = 0 and M is finite, every iterate equals M and so does the
\* value returned, for every iteration count.
C4_CircularIdentity ==
  \A c \in Calls :
    (IsZero(ArgE(c)) /\ IsFinite(ArgM(c))) =>
      /\ Entered(c) => E[c] = ArgM(c)
      /\ pc[c] = "done" => ret[c] = ArgM(c)

\* a call with e = 0 and M # 0 has returned M after at least one pass
C4_Witness ==
  \E c \in Calls :
    /\ IsZero(ArgE(c))
    /\ IsFinite(ArgM(c))
    /\ ~IsZero(ArgM(c))
    /\ pc[c] = "done"
    /\ steps[c] >= 1
    /\ ret[c] = ArgM(c)

\* C5: a call never makes more passes than its iteration count, and a call
\* given a tolerance > 0 makes no further pass once a pass has moved the
\* iterate by less than the tolerance.
C5_ToleranceStops ==
  /\ [](\A c \in Calls : steps[c] <= (IF iterations[c] > 0 THEN iterations[c] ELSE 0))
  /\ [][\A c \in Calls :
          (/\ Len(args[c]) = 4
           /\ Sign(args[c][4]) > 0
           /\ steps[c] >= 1
           /\ AbsLess(Sub(E[c], prev[c]), args[c][4])) => steps'[c] = steps[c]]_vars

\* C6: for finite M and 0 <= e < 1, every iterate is finite and the
\* denominator 1 - e cos(E) at it is at least 1 - e, which is positive.
C6_DenominatorPositive ==
  \A c \in Calls :
    (Entered(c) /\ ValidArgs(c)) =>
      LET d == Denominator(E[c], ArgE(c))
      IN  /\ IsFinite(E[c])
          /\ IsFinite(d)
          /\ ~Less(d, Sub(One, ArgE(c)))
          /\ Sign(d) > 0

\* a pass has run at e = 0.99 and the denominator at the new iterate is
\* below 1 (its cosine is positive)
C6_Witness ==
  \E c \in Calls :
    /\ ValidArgs(c)
    /\ ArgE(c) = E99
    /\ pc[c] = "loop"
    /\ steps[c] >= 1
    /\ Less(Denominator(E[c], ArgE(c)), One)

\* C8: when M = 0 and 0 <= e < 1, every iterate is 0 and the value returned
\* is 0, for every iteration count.
C8_OriginFixedPoint ==
  \A c \in Calls :
    (IsZero(ArgM(c)) /\ ValidE(ArgE(c))) =>
      /\ Entered(c) => IsZero(E[c])
      /\ pc[c] = "done" => IsZero(ret[c])

\* the call with M = 0 and e = 0.5 has returned 0 after at least one pass
C8_Witness ==
  \E c \in Calls :
    /\ IsZero(ArgM(c))
    /\ ArgE(c) = Tenth(5)
    /\ pc[c] = "done"
    /\ steps[c] >= 1
    /\ IsZero(ret[c])

\* C10: a call with an iteration count of 0 or less never runs line 4 and
\* returns its argument M.
C10_NoPassReturnsSeed ==
  \A c \in Calls :
    (Len(args[c]) >= 3 /\ args[c][3] <= 0) =>
      /\ steps[c] = 0
      /\ pc[c] = "done" => ret[c] = ArgM(c)

\* a call with iteration count -1, and one with 0, has returned (no error
\* stopped it) for arguments at which a pass would have moved the iterate
C10_Witness ==
  \E c \in Calls :
    /\ Len(args[c]) >= 3
    /\ args[c][3] <= 0
    /\ pc[c] = "done"
    /\ ret[c] = ArgM(c)
    /\ IsFinite(ArgM(c))
    /\ NewtonStep(ArgM(c), ArgM(c), ArgE(c)) # ArgM(c)

\* 1e-6, rounded down to units
Millionth == FromUnits(S \div 1000000)

\* the left side minus the right side of Kepler's equation x - e sin(x) = M
KeplerEquation(x, M, e) == Sub(Sub(x, Mul(e, Sin(x))), M)

\* the call c has returned a value that is off Kepler's equation by 1e-6 or more
OffRoot(c) == pc[c] = "done" /\ ~AbsLess(KeplerEquation(ret[c], ArgM(c), ArgE(c)), Millionth)

\* no tolerance, 6 or more passes
SixOrMore(c) == Len(args[c]) <= 3 /\ pc[c] = "done" /\ steps[c] >= 6

InFourPi(M) == IsFinite(M) /\ ~Less(FromUnits(FourPi), Abs(M))

\* C7: two calls that have returned and had the same argument list have
\* returned the same value, however their steps were interleaved; and a step
\* of one call changes nothing of any other call and no argument list.
C7_Deterministic ==
  /\ [](\A c, d \in Calls :
          (pc[c] = "done" /\ pc[d] = "done" /\ args[c] = args[d]) => ret[c] = ret[d])
  /\ [][/\ args' = args
        /\ \A c, d \in Calls :
             (c # d /\ <<pc[c], i[c], E[c], ret[c]>> # <<pc'[c], i'[c], E'[c], ret'[c]>>) =>
               <<pc[d], iterations[d], i[d], E[d], ret[d]>>
                 = <<pc'[d], iterations'[d], i'[d], E'[d], ret'[d]>>]_vars

\* two calls with the same arguments have both returned the same value, which
\* is not their argument M
C7_Witness ==
  /\ Calls = {1, 2}
  /\ args[1] = args[2]
  /\ pc[1] = "done"
  /\ pc[2] = "done"
  /\ steps[1] >= 1
  /\ ret[1] = ret[2]
  /\ ret[1] # ArgM(1)

\* C9 (as claimed): for every e in [0, 0.99] and M in [-4 pi, 4 pi], the
\* value returned without a tolerance after 6 or more passes satisfies
\* |E - e sin(E) - M| < 1e-6.
C9_RootProperty ==
  \A c \in Calls :
    (SixOrMore(c) /\ InFourPi(ArgM(c)) /\ ValidE(ArgE(c)) /\ ~Less(E99, ArgE(c)))
      => ~OffRoot(c)

\* C9 (amended): the same for every e in [0, 0.9].
C9_RootPropertyTo09 ==
  \A c \in Calls :
    (SixOrMore(c) /\ InFourPi(ArgM(c)) /\ ValidE(ArgE(c)) /\ ~Less(Tenth(9), ArgE(c)))
      => ~OffRoot(c)

\* a call with e = 0.9 has returned, after 6 passes of which the first moved
\* the iterate by more than 1, a value within 1e-6 of the equation
C9_Witness ==
  \E c \in Calls :
    /\ SixOrMore(c)
    /\ InFourPi(ArgM(c))
    /\ ArgE(c) = Tenth(9)
    /\ ~AbsLess(Sub(NewtonStep(ArgM(c), ArgM(c), ArgE(c)), ArgM(c)), One)
    /\ ~OffRoot(c)

====
